---- MODULE Spec2Model ----
(***************************************************************************)
(* The boundary bridge of python-gpr: the pybind11 wrappers around the     *)
(* native GPR codec.  One call of a bridge operation is a walk through the *)
(* steps of its wrapper (validate, read, set up parameters, native call,   *)
(* output checks, persist or build the result, clean up, or the catch      *)
(* handlers).  Three builds of the extension module are modelled:          *)
(*   "enhanced"  src/python_gpr/_core.cpp, lines 260-1622                  *)
(*   "numpy"     src/python_gpr/_core.cpp, lines 1672-2496                 *)
(*   "minimal"   src/python_gpr/_core_minimal.cpp                          *)
(* The native library, the file system and pybind11 are the environment:   *)
(* their outcomes are chosen nondeterministically at each step.            *)
(***************************************************************************)
EXTENDS Integers, Sequences, FiniteSets, TLC

VARIABLES build, pc, op, args, inBuf, outBuf, params, info, exc, pending,
          result, cnt, native, heap, views, released, calls

vars == <<build, pc, op, args, inBuf, outBuf, params, info, exc, pending,
          result, cnt, native, heap, views, released, calls>>

\* Number of bridge calls made in one behaviour.
MaxCalls == 2

\* One call acquires at most three allocator blocks (get_raw_image_data: the
\* input buffer of the nested get_image_info, its own input and output buffer).
Ptrs == 1 .. (MaxCalls * 3)

Builds == {"enhanced", "numpy", "minimal"}

ConvertOps == {"convert_gpr_to_dng", "convert_dng_to_gpr",
               "convert_gpr_to_raw", "convert_dng_to_dng"}

ExtractOps == {"extract_exif_metadata", "extract_gpr_metadata"}

\* The functions each build binds in its PYBIND11_MODULE block.
OpsOf(b) ==
    CASE b = "enhanced" -> ConvertOps \cup ExtractOps
                           \cup {"modify_metadata", "get_image_info", "get_raw_image_data"}
      [] b = "numpy"    -> ConvertOps \cup {"get_image_info", "get_raw_image_data"}
      [] OTHER          -> ConvertOps \cup ExtractOps
                           \cup {"modify_metadata", "get_raw_image_data"}

\* The shape of the wrapper around each operation.
\*   "stub"     throws std::runtime_error at once (minimal build)
\*   "guarded"  outer try, inner try, parameters_initialized flag,
\*              cleanup_buffer_safe, handlers for GPRError / std::exception / ...
\*   "legacy"   validation outside the try, bare 'if (p) Free(p)', handlers for
\*              GPRConversionError / std::exception / ...
\*   "info"     get_image_info: as legacy, with no catch (...)
\*   "mextract" minimal extract_*: flag, handlers for GPRError / std::exception / ...
\*   "mconvert" minimal convert_dng_to_dng: catch (...) { cleanup; throw; }
Style(b, o) ==
    IF b = "minimal"
    THEN CASE o \in ExtractOps         -> "mextract"
           [] o = "convert_dng_to_dng" -> "mconvert"
           [] OTHER                    -> "stub"
    ELSE CASE o \in {"convert_gpr_to_dng", "modify_metadata", "get_raw_image_data"}
                                       -> "guarded"
           [] o \in ExtractOps         -> "guarded"
           [] o = "get_image_info"     -> "info"
           [] OTHER                    -> "legacy"

\* ------------------------------------------------------------------ inputs

InputPath  == "in.gpr"
OutputPath == "out.dng"

\* What the file system holds at the input path.
FileStates == {"missing", "denied", "empty", "valid"}

\* "uint8" stands for any string outside the supported set.
Dtypes == {"uint16", "float32", "uint8"}

\* The image stored in the input file.
Images == {[width |-> 640, height |-> 480], [width |-> 4000, height |-> 3000],
           [width |-> 3000, height |-> 4000], [width |-> 0, height |-> 480]}

sizeof_uint16_t == 2

\* Bytes of 16-bit raw data the decoder produces for an image.
RawSize(img) == img.width * img.height * sizeof_uint16_t

\* ------------------------------------------------------------------ errors

\* What a message text names: the operation and the paths.  The operation is
\* named only through get_error_context.
NoCtx == [operation |-> "", input |-> "", output |-> ""]

\* A message that ends in ': ' + input_path.
InMsg(input_path) == [operation |-> "", input |-> input_path, output |-> ""]

\* A message that ends in ': ' + output_path.
OutMsg(output_path) == [operation |-> "", input |-> "", output |-> output_path]

\* get_error_context: "Operation: <operation>, Input: <input>" and, when the
\* output path is not empty, ", Output: <output>".
get_error_context(operation, input_path, output_path) ==
    [operation |-> operation, input |-> input_path, output |-> output_path]

Exception(kind, msg, code, filepath, param, size, ctx, orig, supported) ==
    [kind |-> kind, msg |-> msg, error_code |-> code, filepath |-> filepath,
     parameter_name |-> param, requested_size |-> size, ctx |-> ctx,
     orig |-> orig, supported |-> supported]

NoExc == Exception("none", "", 0, "", "", 0, NoCtx, "", << >>)

\* class GPRError(message, error_code = 0)
GPRError(msg, ctx, orig) ==
    Exception("GPRError", msg, 0, "", "", 0, ctx, orig, << >>)

\* class GPRConversionError(message, error_code = 0)
GPRConversionError(msg, ctx, orig) ==
    Exception("GPRConversionError", msg, 0, "", "", 0, ctx, orig, << >>)

\* class GPRFileError(message, filepath = "", error_code = 0)
GPRFileError(msg, ctx, filepath, code) ==
    Exception("GPRFileError", msg, code, filepath, "", 0, ctx, "", << >>)

\* class GPRMemoryError(message, requested_size = 0): error_code stays 0
GPRMemoryError(msg, orig, size) ==
    Exception("GPRMemoryError", msg, 0, "", "", size, NoCtx, orig, << >>)

\* class GPRParameterError(message, parameter_name = ""): error_code stays 0
GPRParameterError(msg, param, supported) ==
    Exception("GPRParameterError", msg, 0, "", param, 0, NoCtx, "", supported)

\* class GPRFormatError(message, format = ""): error_code stays 0
GPRFormatError(msg) ==
    Exception("GPRFormatError", msg, 0, "", "", 0, NoCtx, "", << >>)

\* A std::exception that is no GPRError (std::runtime_error, pybind11::cast_error,
\* pybind11::error_already_set), with what() = msg.
StdException(msg) ==
    Exception("std", msg, 0, "", "", 0, NoCtx, "", << >>)

\* Anything thrown that does not derive from std::exception.
UnknownException ==
    Exception("unknown", "", 0, "", "", 0, NoCtx, "", << >>)

\* m.attr("ERROR_CODE_...") of the module.
ERROR_CODE_FILE_NOT_FOUND == -2
ERROR_CODE_FILE_PERMISSION == -3
ERROR_CODE_FILE_CORRUPTED == -4
ERROR_CODE_MEMORY == -10
ERROR_CODE_PARAMETER == -20
ERROR_CODE_FORMAT == -30

GPRKinds == {"GPRError", "GPRConversionError", "GPRFileError", "GPRMemoryError",
             "GPRParameterError", "GPRFormatError"}

\* The C++ base class of each exception class.
CppBase(kind) ==
    CASE kind = "GPRError"    -> "std"
      [] kind \in GPRKinds    -> "GPRError"
      [] OTHER                -> "none"

\* Whether catch (const k&) matches an exception of class kind.
CppIsA(kind, k) ==
    \/ kind = k
    \/ CppBase(kind) = k
    \/ CppBase(kind) \in GPRKinds /\ CppBase(CppBase(kind)) = k

\* py::register_exception<...>(m, name), in the order of registration.
Registered(b) ==
    IF b = "minimal"
    THEN <<"GPRError", "GPRConversionError">>
    ELSE <<"GPRError", "GPRConversionError", "GPRFileError", "GPRMemoryError",
           "GPRParameterError", "GPRFormatError">>

\* The Python exception type pybind11 raises for a C++ exception of class
\* kind: the translators run last registered first and the first whose class
\* matches wins; what no translator of the module matches is raised by the
\* built-in translator as RuntimeError.
Translate(b, kind) ==
    LET reg  == Registered(b)
        hits == {i \in DOMAIN reg : CppIsA(kind, reg[i])}
    IN  IF hits = {} THEN "RuntimeError"
        ELSE reg[CHOOSE i \in hits : \A j \in hits : j <= i]

\* The Python base class of an exception type: register_exception is called
\* without a base argument, which defaults to PyExc_Exception.
PyBase(b, pytype) ==
    IF pytype = "Exception" THEN "BaseException" ELSE "Exception"

\* Whether 'except handler:' catches a Python exception of type pytype.
PyCaughtBy(b, pytype, handler) ==
    \/ pytype = handler
    \/ PyBase(b, pytype) = handler
    \/ PyBase(b, PyBase(b, pytype)) = handler

\* The text a faulting native or pybind11 call carries in what().
What == "what"

\* ------------------------------------------------------------------ memory

\* gpr_buffer = {nullptr, 0}
NullBuffer == [ptr |-> 0, size |-> 0]

\* A gpr_buffer* that is nullptr.
NullRef == [null |-> TRUE]

HeapStates == {"unused", "live", "freed", "double"}

\* The block the next allocator.Alloc call returns.
FreshPtr(h) ==
    CHOOSE p \in Ptrs : h[p] = "unused" /\ \A q \in Ptrs : h[q] = "unused" => p <= q

\* allocator.Alloc = gpr_global_malloc
Alloc(h) == [h EXCEPT ![FreshPtr(h)] = "live"]

\* allocator.Free = gpr_global_free; "double" records a pointer freed again.
Free(h, p) == [h EXCEPT ![p] = IF @ = "live" THEN "freed" ELSE "double"]
\* cleanup_buffer_safe without the call of allocator->Free.
cleanup_buffer_safe_no_free(buffer, h) ==
    [buffer |-> NullBuffer, heap |-> h, frees |-> 0]

\* cleanup_buffer_safe that frees and leaves the pointer in place.
cleanup_buffer_safe_keeps_pointer(buffer, h) ==
    IF buffer # NullRef /\ buffer.ptr # 0
    THEN [buffer |-> buffer, heap |-> Free(h, buffer.ptr), frees |-> 1]
    ELSE [buffer |-> buffer, heap |-> h, frees |-> 0]

\* cleanup_buffer_safe: if (buffer && buffer->buffer), free and reset.
cleanup_buffer_safe(buffer, h) ==
    IF buffer # NullRef /\ buffer.ptr # 0
    THEN [buffer |-> NullBuffer, heap |-> Free(h, buffer.ptr), frees |-> 1]
    ELSE [buffer |-> buffer, heap |-> h, frees |-> 0]

\* if (buffer.buffer) { allocator.Free(buffer.buffer); }   (pointer kept)
free_if_set(buffer, h) ==
    IF buffer.ptr # 0
    THEN [buffer |-> buffer, heap |-> Free(h, buffer.ptr), frees |-> 1]
    ELSE [buffer |-> buffer, heap |-> h, frees |-> 0]

\* gpr_parameters: live = set up and not destroyed, flag = parameters_initialized,
\* payload = the block gpr_parse_metadata attached (gpmf payload / preview), or 0,
\* parsed = the 'success' local of the metadata parse.
NoParams == [live |-> FALSE, flag |-> FALSE, payload |-> 0, parsed |-> FALSE]

\* gpr_parameters_destroy(&parameters, allocator.Free)
gpr_parameters_destroy(p, h) ==
    [params |-> [p EXCEPT !.live = FALSE],
     heap |-> IF p.payload # 0 THEN Free(h, p.payload) ELSE h,
     frees |-> IF p.payload # 0 THEN 1 ELSE 0]

\* Whether the operation sets up a gpr_parameters structure.
HasParams(b, o) == ~(o = "convert_gpr_to_raw" /\ Style(b, o) = "legacy")

\* Whether the success path destroys the parameters.
DestroysOnSuccess(b, o, p) ==
    CASE Style(b, o) \in {"guarded", "mextract"} -> p.flag
      [] Style(b, o) = "legacy"                  -> HasParams(b, o)
      [] OTHER                                   -> TRUE

\* Whether the catch handlers destroy the parameters.
DestroysInHandler(b, o, p) ==
    CASE Style(b, o) \in {"guarded", "mextract"} -> p.flag
      [] OTHER                                   -> FALSE

\* How buffers are released: through cleanup_buffer_safe or with a bare free.
ReleaseBuffer(b, o, buffer, h) ==
    IF Style(b, o) \in {"guarded", "mextract", "mconvert"}
    THEN cleanup_buffer_safe(buffer, h)
    ELSE free_if_set(buffer, h)
\* A success path that frees the output buffer for every dtype.
FreesOutputAlways(o, dtype) == TRUE

\* A success path of get_raw_image_data that leaves the output buffer alone.
FreesOutputExceptRaw(o, dtype) == o # "get_raw_image_data"

\* The success path frees the output buffer, except get_raw_image_data with
\* uint16 ("the NumPy array owns the data, so don't free it").
FreesOutputOnSuccess(o, dtype) ==
    IF o = "get_raw_image_data" THEN dtype = "float32" ELSE TRUE

\* The whole release sequence of a success path or a handler: parameters,
\* input buffer, output buffer, in that order.
Release(b, o, p, ib, ob, h, destroy, freeOut) ==
    LET d  == IF destroy THEN gpr_parameters_destroy(p, h)
                         ELSE [params |-> p, heap |-> h, frees |-> 0]
        i  == ReleaseBuffer(b, o, ib, d.heap)
        u  == IF freeOut THEN ReleaseBuffer(b, o, ob, i.heap)
                         ELSE [buffer |-> ob, heap |-> i.heap, frees |-> 0]
    IN  [params |-> d.params, inBuf |-> i.buffer, outBuf |-> u.buffer,
         heap |-> u.heap, frees |-> d.frees + i.frees + u.frees,
         destroys |-> IF destroy THEN 1 ELSE 0]

\* What the native library and pybind11 did in the current call: the outcome
\* of the last read_file_to_buffer, the return
\* of gpr_parse_metadata, the return of the native conversion and the output
\* buffer it left, the 16-bit value px the decoder wrote to every element of
\* that buffer, and the last exception raised that is no GPRError ("std" or
\* "unknown").
NoNative == [read |-> "none", parse |-> "none", convert |-> "none", out |-> "none",
             px |-> 0, fault |-> "none"]

\* The fault a native return stands for.
FaultOf(ret) == IF ret \in {"std", "unknown"} THEN ret ELSE "none"

\* Counters of one call: blocks allocated and freed, allocator calls that
\* returned null, parameters set up and destroyed, native calls, writes.
ZeroCnt == [allocs |-> 0, frees |-> 0, alloc_null |-> 0, inits |-> 0, destroys |-> 0,
            parses |-> 0, converts |-> 0, writes |-> 0]

Bump(c, field, n) == [c EXCEPT ![field] = @ + n]

\* allocate_buffer_safe without its two checks.
allocate_buffer_safe_unchecked(buffer, size, alloc_ok, h) ==
    IF alloc_ok
    THEN [buffer |-> [ptr |-> FreshPtr(h), size |-> size], heap |-> Alloc(h),
          allocs |-> 1, alloc_null |-> 0, exc |-> NoExc]
    ELSE [buffer |-> [ptr |-> 0, size |-> size], heap |-> h,
          allocs |-> 0, alloc_null |-> 1, exc |-> NoExc]

\* allocate_buffer_safe(buffer, size, allocator); alloc_ok tells whether
\* allocator.Alloc returns a block or null.  exc is the exception thrown.
allocate_buffer_safe(buffer, size, alloc_ok, h) ==
    IF size = 0
    THEN [buffer |-> buffer, heap |-> h, allocs |-> 0, alloc_null |-> 0,
          exc |-> GPRParameterError("Cannot allocate buffer with zero size",
                                    "buffer_size", << >>)]
    ELSE IF ~alloc_ok
         THEN [buffer |-> [buffer EXCEPT !.ptr = 0], heap |-> h,
               allocs |-> 0, alloc_null |-> 1,
               exc |-> GPRMemoryError("Failed to allocate buffer", "", size)]
         ELSE [buffer |-> [ptr |-> FreshPtr(h), size |-> size], heap |-> Alloc(h),
               allocs |-> 1, alloc_null |-> 0, exc |-> NoExc]

\* ------------------------------------------------------------------ validation

\* std::ifstream file(filepath): the stream is open when the file exists and
\* may be read, and a stream that opened is good().
is_open(fs) == fs \in {"empty", "valid"}
good(fs) == is_open(fs)

\* Bytes of a file that come before its image data.
FileHeader == 16

\* file.seekg(0, std::ios::end); file.tellg()
tellg(fs, img) == IF fs = "valid" THEN FileHeader + img.width * img.height ELSE 0

\* A validation that lets every path through.
validate_input_file_unchecked(b, filepath, fs, img) == NoExc

\* validate_input_file: the exception it throws, or NoExc.
validate_input_file(b, filepath, fs, img) ==
    IF b = "minimal"
    THEN IF ~good(fs)
         THEN GPRError("Input file does not exist or cannot be accessed", InMsg(filepath), "")
         ELSE IF tellg(fs, img) <= 0
              THEN GPRError("Input file is empty or corrupted", InMsg(filepath), "")
              ELSE NoExc
    ELSE IF ~good(fs)
         THEN IF ~is_open(fs)
              THEN GPRFileError("Input file does not exist or cannot be accessed",
                                InMsg(filepath), filepath, -2)
              ELSE GPRFileError("Input file cannot be read", InMsg(filepath), filepath, -3)
         ELSE IF tellg(fs, img) <= 0
              THEN GPRFileError("Input file is empty or corrupted",
                                InMsg(filepath), filepath, -4)
              ELSE NoExc

\* ------------------------------------------------------------------ errors of each step

\* The operation name each wrapper gives get_error_context when the native
\* call reports failure.
NativeOpName(o) ==
    CASE o = "convert_gpr_to_dng"    -> "GPR to DNG conversion"
      [] o = "extract_exif_metadata" -> "metadata extraction"
      [] o = "extract_gpr_metadata"  -> "GPR metadata extraction"
      [] o = "modify_metadata"       -> "DNG conversion with updated metadata"
      [] OTHER                       -> "GPR to raw conversion for data extraction"

\* The operation name the std::exception and (...) handlers give get_error_context.
HandlerOpName(o) ==
    CASE o = "convert_gpr_to_dng"    -> "GPR to DNG conversion"
      [] o = "extract_exif_metadata" -> "EXIF metadata extraction"
      [] o = "extract_gpr_metadata"  -> "GPR metadata extraction"
      [] o = "modify_metadata"       -> "metadata modification"
      [] OTHER                       -> "raw image data extraction"

\* The operation the fixed message texts of the other wrappers name
\* ("DNG to GPR conversion failed", "Unknown error during GPR to RAW conversion").
LegacyOpName(o) ==
    CASE o = "convert_dng_to_gpr" -> "DNG to GPR conversion"
      [] o = "convert_gpr_to_raw" -> "GPR to RAW conversion"
      [] o = "convert_dng_to_dng" -> "DNG to DNG conversion"
      [] OTHER                    -> ""

\* The output path the guarded wrappers pass to get_error_context: the
\* conversions and modify_metadata pass output_path, the others none.
CtxOutput(o, output_path) ==
    IF o \in {"convert_gpr_to_dng", "modify_metadata"} THEN output_path ELSE ""

\* read_file_to_buffer returned false.
ReadError(b, o, input_path) ==
    CASE Style(b, o) = "guarded"  ->
             GPRFileError("Failed to read input file", NoCtx, input_path, -1)
      [] Style(b, o) = "mextract" ->
             GPRError("Failed to read input file", InMsg(input_path), "")
      [] OTHER ->
             GPRConversionError("Failed to read input file", InMsg(input_path), "")

\* gpr_parse_metadata returned false (guarded wrappers).
ParseFailError(o, input_path) ==
    GPRConversionError("Failed to parse metadata",
        get_error_context(IF o = "modify_metadata"
                          THEN "metadata parsing for modification"
                          ELSE NativeOpName(o), input_path, ""), "")

\* The native conversion returned false.
NativeFailError(b, o, input_path, output_path) ==
    IF Style(b, o) = "guarded"
    THEN GPRConversionError("conversion failed",
             get_error_context(NativeOpName(o), input_path, CtxOutput(o, output_path)), "")
    ELSE GPRConversionError("conversion failed",
             [operation |-> LegacyOpName(o), input |-> "", output |-> ""], "")

\* output_buffer.buffer == nullptr || output_buffer.size == 0
EmptyOutputError == GPRConversionError("Conversion produced empty output buffer", NoCtx, "")

\* Writing the destination failed.
WriteError(b, o, output_path) ==
    IF Style(b, o) = "guarded"
    THEN GPRFileError("Failed to write output file", NoCtx, output_path, -1)
    ELSE GPRConversionError("Failed to write output file", OutMsg(output_path), "")

\* Whether one of the wrapper's handlers catches e (and so runs its cleanup):
\* get_image_info has no catch (...).
HandlerCatches(b, o, e) == ~(Style(b, o) = "info" /\ e.kind = "unknown")

\* Whether the handler that catches e rethrows it unchanged.
Rethrown(b, o, e) ==
    CASE Style(b, o) \in {"guarded", "mextract"} -> e.kind \in GPRKinds
      [] Style(b, o) \in {"legacy", "info"}      -> e.kind = "GPRConversionError"
      [] OTHER                                   -> TRUE

\* The exception that leaves the wrapper when e is thrown inside its try block.
Thrown(b, o, e, input_path, output_path) ==
    IF ~HandlerCatches(b, o, e) \/ Rethrown(b, o, e)
    THEN e
    ELSE CASE Style(b, o) = "guarded" ->
                  GPRConversionError(
                      IF e.kind = "unknown" THEN "Unknown error" ELSE "Unexpected error",
                      get_error_context(HandlerOpName(o), input_path,
                                        CtxOutput(o, output_path)),
                      IF e.kind = "unknown" THEN "" ELSE e.msg)
           [] Style(b, o) = "mextract" ->
                  IF e.kind = "unknown"
                  THEN GPRError("Unknown error during metadata extraction",
                                [operation |-> NativeOpName(o), input |-> input_path,
                                 output |-> ""], "")
                  ELSE GPRError("Metadata extraction failed", NoCtx, e.msg)
           [] OTHER ->
                  GPRConversionError(
                      IF e.kind = "unknown" THEN "Unknown error" ELSE "Unexpected error",
                      IF e.kind = "unknown"
                      THEN [operation |-> LegacyOpName(o), input |-> "", output |-> ""]
                      ELSE NoCtx,
                      IF e.kind = "unknown" THEN "" ELSE e.msg)

\* ------------------------------------------------------------------ image information and views

NoInfo == [width |-> 0, height |-> 0, channels |-> 0, format |-> "", data_size |-> 0]

DefaultWidth == 4000
DefaultHeight == 3000

\* get_image_info fills the structure with "reasonable defaults based on
\* common GPR dimensions"; the file is read but not inspected.
ImageInfo(img) ==
    [width |-> DefaultWidth, height |-> DefaultHeight, channels |-> 1,
     format |-> "uint16",
     data_size |-> DefaultWidth * DefaultHeight * 1 * sizeof_uint16_t]

NoView == [id |-> 0, dtype |-> "", shape |-> << >>, strides |-> << >>,
           data |-> "", buf |-> 0, base |-> "", host_allocs |-> 0,
           count |-> 0, elem |-> [num |-> 0, den |-> 1]]

\* py::array_t<uint16_t>(shape, strides, ptr [, base]).  Without a base
\* (enhanced build) pybind11 copies the data into a block numpy owns; with
\* base = py::none() (numpy build) the array aliases ptr and owns nothing.
array_t_uint16(b, id, nfo, ptr, px) ==
    [id |-> id, dtype |-> "uint16",
     count |-> nfo.height * nfo.width, elem |-> [num |-> px, den |-> 1],
     shape |-> <<nfo.height, nfo.width>>,
     strides |-> <<nfo.width * sizeof_uint16_t, sizeof_uint16_t>>,
     data |-> IF b = "numpy" THEN "native" ELSE "host",
     buf |-> ptr,
     base |-> IF b = "numpy" THEN "none" ELSE "absent",
     host_allocs |-> IF b = "numpy" THEN 0 ELSE 1]

\* The largest 16-bit value, the divisor of the normalisation.
UINT16_MAX == 65535

\* static_cast<float>(raw) / 65535.0f: the float nearest to raw / 65535, kept
\* as that ratio (0/65535 and 65535/65535 are the floats 0.0 and 1.0).
Normalize(raw) == [num |-> raw, den |-> UINT16_MAX]

\* py::array_t<float>(height * width), filled from the raw data and reshaped
\* to {height, width}.
array_t_float(id, nfo, px) ==
    [id |-> id, dtype |-> "float32",
     count |-> nfo.height * nfo.width, elem |-> Normalize(px),
     shape |-> <<nfo.height, nfo.width>>,
     strides |-> <<nfo.width * 4, 4>>,
     data |-> "host", buf |-> 0, base |-> "absent", host_allocs |-> 1]

\* A dtype check that lets every string through.
SupportedDtype_any(dtype) == TRUE

\* dtype != "uint16" && dtype != "float32"
SupportedDtype(dtype) == dtype = "uint16" \/ dtype = "float32"

\* The 'supported' vector joined into the message of the dtype error.
SupportedList == <<"uint16", "float32">>

\* What the end of a view's life frees through the GPR allocator: only a view
\* whose base owns the buffer would free it.
ViewReleaseHeap(h, v) == IF v.base = "owner" THEN Free(h, v.buf) ELSE h

NoValue == [kind |-> "none"]
\* raised is the Python exception type the host sees.
NoResult == [status |-> "none", err |-> NoExc, value |-> NoValue, raised |-> "none"]

\* The value a successful call returns.
ReturnValue(o, p, nfo, v) ==
    CASE o = "get_raw_image_data" -> [kind |-> "view", view |-> v]
      [] o = "get_image_info"     -> [kind |-> "info", info |-> nfo]
      [] o \in ExtractOps         -> [kind |-> "dict", mock |-> ~p.parsed]
      [] OTHER                    -> [kind |-> "bool", ok |-> TRUE]

\* ------------------------------------------------------------------ state machine

Init ==
    /\ build \in Builds
    /\ pc = "idle"
    /\ op = "none"
    /\ args = [path |-> InputPath, out |-> "", fileState |-> "valid",
               image |-> [width |-> 640, height |-> 480], dtype |-> "uint16"]
    /\ inBuf = NullBuffer
    /\ outBuf = NullBuffer
    /\ params = NoParams
    /\ info = NoInfo
    /\ exc = NoExc
    /\ pending = NoView
    /\ result = NoResult
    /\ cnt = ZeroCnt
    /\ native = NoNative
    /\ heap = [p \in Ptrs |-> "unused"]
    /\ views = {}
    /\ released = {}
    /\ calls = 0

\* The exception e leaves the operation: control returns to the caller.
Raise(e) ==
    /\ result' = [status |-> "error", err |-> e, value |-> NoValue,
                  raised |-> Translate(build, e.kind)]
    /\ pending' = NoView
    /\ exc' = NoExc
    /\ pc' = "done"

\* A failure that is swallowed, the failed step being tried again.
Throw_retry(e) ==
    /\ exc' = exc
    /\ pc' = pc

\* The exception e is thrown inside the wrapper's try block.
Throw(e) ==
    /\ exc' = e
    /\ pc' = "catch"

\* The host calls a bound function.  dtype defaults to "uint16"; the image in
\* the file matters only to the operations that decode raw data.
Call(o, fs, img, dt) ==
    /\ pc \in {"idle", "done"}
    /\ calls < MaxCalls
    /\ o \in OpsOf(build)
    /\ dt # "uint16" => o = "get_raw_image_data"
    /\ img.width # 640 => o \in {"get_raw_image_data", "get_image_info", "convert_gpr_to_raw"}
    /\ img.width = 0 => o = "get_raw_image_data" /\ fs = "valid"
    /\ calls' = calls + 1
    /\ op' = o
    /\ args' = [path |-> InputPath,
                out |-> IF o \in ConvertOps \cup {"modify_metadata"} THEN OutputPath ELSE "",
                fileState |-> fs, image |-> img, dtype |-> dt]
    /\ inBuf' = NullBuffer
    /\ outBuf' = NullBuffer
    /\ params' = NoParams
    /\ info' = NoInfo
    /\ exc' = NoExc
    /\ pending' = NoView
    /\ result' = NoResult
    /\ cnt' = ZeroCnt
    /\ native' = NoNative
    /\ pc' = IF Style(build, o) = "stub" THEN "stub" ELSE "validate"
    /\ UNCHANGED <<build, heap, views, released>>

\* The minimal build's unavailable functions: throw std::runtime_error.
Stub ==
    /\ pc = "stub"
    /\ Raise(StdException("not available in this build"))
    /\ native' = [native EXCEPT !.fault = "std"]
    /\ UNCHANGED <<build, op, args, inBuf, outBuf, params, info, cnt, heap,
                   views, released, calls>>

\* A get_raw_image_data that goes from the validation to get_image_info.
AfterValidation_no_dtype(o) == IF o = "get_raw_image_data" THEN "info" ELSE "read"

\* What follows the validation: the dtype check in get_raw_image_data, the
\* read of the input file elsewhere.
AfterValidation(o) == IF o = "get_raw_image_data" THEN "dtype" ELSE "read"

\* validate_input_file(input_path), the first statement of every wrapper.
Validate ==
    /\ pc = "validate"
    /\ LET e == validate_input_file(build, args.path, args.fileState, args.image)
       IN  IF e.kind # "none"
           THEN Raise(e)
           ELSE /\ pc' = AfterValidation(op)
                /\ UNCHANGED <<result, pending, exc>>
    /\ UNCHANGED <<build, op, args, inBuf, outBuf, params, info, cnt, native, heap,
                   views, released, calls>>

\* get_raw_image_data: validate the dtype parameter.
CheckDtype ==
    /\ pc = "dtype"
    /\ IF ~SupportedDtype(args.dtype)
       THEN Raise(GPRParameterError("Unsupported dtype", "dtype", SupportedList))
       ELSE /\ pc' = "info"
            /\ UNCHANGED <<result, pending, exc>>
    /\ UNCHANGED <<build, op, args, inBuf, outBuf, params, info, cnt, native, heap,
                   views, released, calls>>

\* read_file_to_buffer / read_from_file: r = "ok", "fail_open" (nothing was
\* allocated) or "fail_read" (the block was allocated, freed and reset).
read_file_to_buffer(r, h, size) ==
    CASE r = "ok" ->
             [ok |-> TRUE, buffer |-> [ptr |-> FreshPtr(h), size |-> size],
              heap |-> Alloc(h), allocs |-> 1, frees |-> 0]
      [] r = "fail_read" ->
             [ok |-> FALSE, buffer |-> NullBuffer,
              heap |-> Free(Alloc(h), FreshPtr(h)), allocs |-> 1, frees |-> 1]
      [] OTHER ->
             [ok |-> FALSE, buffer |-> NullBuffer, heap |-> h,
              allocs |-> 0, frees |-> 0]

ReadOutcomes == {"ok", "fail_open", "fail_read"}

\* get_raw_image_data calls get_image_info(input_path): the whole nested call
\* (validate, read, parameters, defaults, destroy, free), or its read failure.
NestedImageInfo(r) ==
    /\ pc = "info"
    /\ LET rd == read_file_to_buffer(r, heap, tellg(args.fileState, args.image))
           fr == free_if_set(rd.buffer, rd.heap)
       IN  IF rd.ok
           THEN /\ heap' = fr.heap
                /\ cnt' = [cnt EXCEPT !.allocs = @ + rd.allocs,
                                      !.frees = @ + fr.frees,
                                      !.inits = @ + 1, !.destroys = @ + 1]
                /\ info' = ImageInfo(args.image)
                /\ pc' = "dims"
                /\ UNCHANGED <<result, pending, exc>>
           ELSE /\ heap' = rd.heap
                /\ cnt' = [cnt EXCEPT !.allocs = @ + rd.allocs, !.frees = @ + rd.frees]
                /\ info' = info
                /\ Raise(ReadError(build, "get_image_info", args.path))
    /\ native' = [native EXCEPT !.read = r]
    /\ UNCHANGED <<build, op, args, inBuf, outBuf, params, views, released, calls>>

\* get_raw_image_data: info.width <= 0 || info.height <= 0
CheckDimensions ==
    /\ pc = "dims"
    /\ IF info.width <= 0 \/ info.height <= 0
       THEN Raise(GPRFormatError("Invalid image dimensions"))
       ELSE /\ pc' = "read"
            /\ UNCHANGED <<result, pending, exc>>
    /\ UNCHANGED <<build, op, args, inBuf, outBuf, params, info, cnt, native, heap,
                   views, released, calls>>

\* Read the input file into input_buffer.
ReadInput(r) ==
    /\ pc = "read"
    /\ LET rd == read_file_to_buffer(r, heap, tellg(args.fileState, args.image))
       IN  /\ heap' = rd.heap
           /\ inBuf' = rd.buffer
           /\ cnt' = [cnt EXCEPT !.allocs = @ + rd.allocs, !.frees = @ + rd.frees]
           /\ IF rd.ok
              THEN /\ pc' = IF HasParams(build, op) THEN "params" ELSE "native"
                   /\ exc' = exc
              ELSE Throw(ReadError(build, op, args.path))
    /\ native' = [native EXCEPT !.read = r]
    /\ UNCHANGED <<build, op, args, outBuf, params, info, pending, result,
                   views, released, calls>>

\* gpr_parameters_set_defaults(&parameters); parameters_initialized = true
InitParameters ==
    /\ pc = "params"
    /\ params' = [live |-> TRUE,
                  flag |-> Style(build, op) \in {"guarded", "mextract"},
                  payload |-> 0, parsed |-> FALSE]
    /\ cnt' = Bump(cnt, "inits", 1)
    /\ pc' = CASE op \in ExtractOps \cup {"modify_metadata"} -> "parse"
               [] op = "get_image_info"                      -> "build_info"
               [] OTHER                                      -> "native"
    /\ UNCHANGED <<native, build, op, args, inBuf, outBuf, info, exc, pending, result,
                   heap, views, released, calls>>

NativeReturns == {"true", "false", "std", "unknown"}

\* gpr_parse_metadata(&allocator, &input_buffer, &parameters): it returns
\* true or false or faults, and may attach a payload block to the parameters.
ParseMetadata(ret, payload) ==
    /\ pc = "parse"
    /\ cnt' = [cnt EXCEPT !.parses = @ + 1,
                          !.allocs = @ + (IF payload THEN 1 ELSE 0)]
    /\ heap' = IF payload THEN Alloc(heap) ELSE heap
    /\ params' = [params EXCEPT !.payload = IF payload THEN FreshPtr(heap) ELSE 0,
                                !.parsed = (ret = "true")]
    /\ IF Style(build, op) = "mextract"
       THEN \* a fault is caught at once: success = false, mock data follows
            /\ pc' = "marshal"
            /\ exc' = exc
       ELSE CASE ret = "true"    -> /\ pc' = IF op = "modify_metadata"
                                            THEN "update" ELSE "marshal"
                                    /\ exc' = exc
              [] ret = "false"   -> Throw(ParseFailError(op, args.path))
              [] ret = "std"     -> Throw(StdException(What))
              [] OTHER           -> Throw(UnknownException)
    /\ native' = [native EXCEPT !.parse = ret,
                                !.fault = IF FaultOf(ret) = "none" THEN @ ELSE ret]
    /\ UNCHANGED <<build, op, args, inBuf, outBuf, info, pending, result,
                   views, released, calls>>

\* modify_metadata: apply exif_updates; a py::cast of a value may throw.
ApplyUpdates(fault) ==
    /\ pc = "update"
    /\ IF fault
       THEN Throw(StdException(What))
       ELSE /\ pc' = "native"
            /\ exc' = exc
    /\ native' = [native EXCEPT !.fault = IF fault THEN "std" ELSE @]
    /\ UNCHANGED <<build, op, args, inBuf, outBuf, params, info, pending, result,
                   cnt, heap, views, released, calls>>

OutputKinds == {"null", "zero", "short", "full"}

\* Values of a 16-bit raw element.
Pixels == {0, 32768, UINT16_MAX}

\* Bytes the native conversion writes to output_buffer.
OutputSize(o, a) ==
    IF o \in {"get_raw_image_data", "convert_gpr_to_raw"}
    THEN RawSize(a.image)
    ELSE tellg(a.fileState, a.image)

\* The native conversion (gpr_convert_*): it returns true or false or faults,
\* leaving output_buffer null, allocated with size 0, or allocated in full.
NativeConvert(ret, out, px) ==
    /\ pc = "native"
    /\ px # 0 => op = "get_raw_image_data" /\ out = "full"
    /\ out = "short" => op = "get_raw_image_data" /\ ret = "true"
    /\ cnt' = [cnt EXCEPT !.converts = @ + 1,
                          !.allocs = @ + (IF out = "null" THEN 0 ELSE 1)]
    /\ heap' = IF out = "null" THEN heap ELSE Alloc(heap)
    /\ outBuf' = CASE out = "null" -> NullBuffer
                   [] out = "zero" -> [ptr |-> FreshPtr(heap), size |-> 0]
                   [] out = "short" -> [ptr |-> FreshPtr(heap),
                                        size |-> OutputSize(op, args) \div 2]
                   [] OTHER        -> [ptr |-> FreshPtr(heap),
                                       size |-> OutputSize(op, args)]
    /\ CASE ret = "true"  -> /\ pc' = IF Style(build, op) = "guarded"
                                      THEN "check" ELSE "write"
                             /\ exc' = exc
         [] ret = "false" -> Throw(NativeFailError(build, op, args.path, args.out))
         [] ret = "std"   -> Throw(StdException(What))
         [] OTHER         -> Throw(UnknownException)
    /\ native' = [native EXCEPT !.convert = ret, !.out = out, !.px = px,
                                !.fault = IF FaultOf(ret) = "none" THEN @ ELSE ret]
    /\ UNCHANGED <<build, op, args, inBuf, params, info, pending, result,
                   views, released, calls>>

\* Guarded wrappers: reject a null or zero-sized output buffer.
CheckOutput ==
    /\ pc = "check"
    /\ IF outBuf.ptr = 0 \/ outBuf.size = 0
       THEN Throw(EmptyOutputError)
       ELSE /\ pc' = IF op = "get_raw_image_data" THEN "size" ELSE "write"
            /\ exc' = exc
    /\ UNCHANGED <<build, op, args, inBuf, outBuf, params, info, pending, result,
                   cnt, native, heap, views, released, calls>>

\* An expected size that counts elements, not bytes.
expected_size_in_elements(nfo) == nfo.width * nfo.height

\* size_t expected_size = info.width * info.height * sizeof(uint16_t)
expected_size(nfo) == nfo.width * nfo.height * sizeof_uint16_t

\* get_raw_image_data: output_buffer.size < expected_size
CheckSize ==
    /\ pc = "size"
    /\ IF outBuf.size < expected_size(info)
       THEN Throw(GPRFormatError("Output buffer size is smaller than expected"))
       ELSE /\ pc' = "view"
            /\ exc' = exc
    /\ UNCHANGED <<build, op, args, inBuf, outBuf, params, info, pending, result,
                   cnt, native, heap, views, released, calls>>

Faults == {"none", "std", "unknown"}

\* get_raw_image_data: build the NumPy array for the requested dtype.  A
\* std::exception from pybind11 becomes GPRMemoryError inside the branch.
BuildView(fault) ==
    /\ pc = "view"
    /\ CASE fault = "none" ->
               /\ pending' = IF args.dtype = "uint16"
                             THEN array_t_uint16(build, calls, info, outBuf.ptr,
                                                 native.px)
                             ELSE array_t_float(calls, info, native.px)
               /\ pc' = "cleanup"
               /\ exc' = exc
         [] fault = "std" ->
               /\ pending' = pending
               /\ Throw(GPRMemoryError("Failed to create NumPy array", What, 0))
         [] OTHER ->
               /\ pending' = pending
               /\ Throw(UnknownException)
    /\ native' = [native EXCEPT !.fault = IF fault = "none" THEN @ ELSE fault]
    /\ UNCHANGED <<build, op, args, inBuf, outBuf, params, info, result,
                   cnt, heap, views, released, calls>>

\* write_buffer_to_file(&output_buffer, output_path) (std::ofstream in the
\* minimal build).
WriteOutput(ok) ==
    /\ pc = "write"
    /\ cnt' = Bump(cnt, "writes", 1)
    /\ IF ok
       THEN /\ pc' = "cleanup"
            /\ exc' = exc
       ELSE Throw(WriteError(build, op, args.out))
    /\ UNCHANGED <<native, build, op, args, inBuf, outBuf, params, info, pending, result,
                   heap, views, released, calls>>

\* extract_*: fill the py::dict from the parameters; pybind11 may throw.
Marshal(fault) ==
    /\ pc = "marshal"
    /\ IF fault
       THEN Throw(StdException(What))
       ELSE /\ pc' = "cleanup"
            /\ exc' = exc
    /\ native' = [native EXCEPT !.fault = IF fault THEN "std" ELSE @]
    /\ UNCHANGED <<build, op, args, inBuf, outBuf, params, info, pending, result,
                   cnt, heap, views, released, calls>>

\* get_image_info: fill the ImageInfo structure.
BuildInfo ==
    /\ pc = "build_info"
    /\ info' = ImageInfo(args.image)
    /\ pc' = "cleanup"
    /\ UNCHANGED <<build, op, args, inBuf, outBuf, params, exc, pending, result,
                   cnt, native, heap, views, released, calls>>

\* The clean-up at the end of the try block, then return.
CleanupSuccess ==
    /\ pc = "cleanup"
    /\ LET r == Release(build, op, params, inBuf, outBuf, heap,
                        DestroysOnSuccess(build, op, params),
                        FreesOutputOnSuccess(op, args.dtype))
       IN  /\ params' = r.params
           /\ inBuf' = r.inBuf
           /\ outBuf' = r.outBuf
           /\ heap' = r.heap
           /\ cnt' = [cnt EXCEPT !.frees = @ + r.frees, !.destroys = @ + r.destroys]
    /\ result' = [status |-> "ok", err |-> NoExc,
                  value |-> ReturnValue(op, params, info, pending),
                  raised |-> "none"]
    /\ views' = IF pending = NoView THEN views ELSE views \cup {pending}
    /\ pc' = "done"
    /\ UNCHANGED <<native, build, op, args, info, exc, pending, released, calls>>

\* The catch handlers: clean up (when a handler catches the exception) and
\* throw to the caller.
HandleError ==
    /\ pc = "catch"
    /\ LET r == IF HandlerCatches(build, op, exc)
                THEN Release(build, op, params, inBuf, outBuf, heap,
                             DestroysInHandler(build, op, params), TRUE)
                ELSE [params |-> params, inBuf |-> inBuf, outBuf |-> outBuf,
                      heap |-> heap, frees |-> 0, destroys |-> 0]
       IN  /\ params' = r.params
           /\ inBuf' = r.inBuf
           /\ outBuf' = r.outBuf
           /\ heap' = r.heap
           /\ cnt' = [cnt EXCEPT !.frees = @ + r.frees, !.destroys = @ + r.destroys]
    /\ Raise(Thrown(build, op, exc, args.path, args.out))
    /\ UNCHANGED <<native, build, op, args, info, views, released, calls>>

\* The host drops its last reference to a view.
ReleaseView(v) ==
    /\ v \in views
    /\ views' = views \ {v}
    /\ released' = released \cup {v}
    /\ heap' = ViewReleaseHeap(heap, v)
    /\ UNCHANGED <<build, pc, op, args, inBuf, outBuf, params, info, exc,
                   pending, result, cnt, native, calls>>

Next ==
    \/ \E o \in ConvertOps \cup ExtractOps
                \cup {"modify_metadata", "get_image_info", "get_raw_image_data"},
          fs \in FileStates, img \in Images, dt \in Dtypes : Call(o, fs, img, dt)
    \/ Stub
    \/ Validate
    \/ CheckDtype
    \/ \E r \in ReadOutcomes : NestedImageInfo(r)
    \/ CheckDimensions
    \/ \E r \in ReadOutcomes : ReadInput(r)
    \/ InitParameters
    \/ \E ret \in NativeReturns, payload \in BOOLEAN : ParseMetadata(ret, payload)
    \/ \E fault \in BOOLEAN : ApplyUpdates(fault)
    \/ \E ret \in NativeReturns, out \in OutputKinds, px \in Pixels :
          NativeConvert(ret, out, px)
    \/ CheckOutput
    \/ CheckSize
    \/ \E fault \in Faults : BuildView(fault)
    \/ \E ok \in BOOLEAN : WriteOutput(ok)
    \/ \E fault \in BOOLEAN : Marshal(fault)
    \/ BuildInfo
    \/ CleanupSuccess
    \/ HandleError
    \/ \E v \in views : ReleaseView(v)

Spec == Init /\ [][Next]_vars

\* A step inside a call.  No wrapper waits, suspends or is cancelled: once
\* called it runs on, provided each file-system and native call returns.
Step == pc \notin {"idle", "done"} /\ Next

\* Number of calls followed to their end.
MaxLiveCalls == 1

NextLive == Next /\ calls' <= MaxLiveCalls

SpecLive == Init /\ [][NextLive]_vars /\ WF_vars(Step)

\* ------------------------------------------------------------------ a clean-up that faults

\* The text a faulting gpr_parameters_destroy carries in what().
DestroyWhat == "destroy what"

\* The exception that leaves the wrapper when gpr_parameters_destroy throws
\* inside a catch handler: it propagates out of the handler to the enclosing
\* try block, whose handlers wrap a std::exception as "Setup error" and have
\* no catch (...); the minimal build has no enclosing try block.
DestroyFaultThrown(b, o, f, input_path, output_path) ==
    CASE f = "std" /\ Style(b, o) = "guarded" ->
             GPRError("Setup error",
                      get_error_context(HandlerOpName(o), input_path,
                                        CtxOutput(o, output_path)),
                      DestroyWhat)
      [] f = "std" -> StdException(DestroyWhat)
      [] OTHER     -> UnknownException

\* A catch handler whose gpr_parameters_destroy throws: the statements after
\* it (the two cleanup_buffer_safe calls and the throw of the handler) do not
\* run.
HandleErrorDestroyFault(f) ==
    /\ pc = "catch"
    /\ HandlerCatches(build, op, exc)
    /\ DestroysInHandler(build, op, params)
    /\ cnt' = Bump(cnt, "destroys", 1)
    /\ native' = [native EXCEPT !.fault = f]
    /\ Raise(DestroyFaultThrown(build, op, f, args.path, args.out))
    /\ UNCHANGED <<build, op, args, inBuf, outBuf, params, info, heap, views,
                   released, calls>>

NextDestroyFault ==
    \/ Next
    \/ \E f \in {"std", "unknown"} : HandleErrorDestroyFault(f)

\* The bridge in an environment where gpr_parameters_destroy may throw.
SpecDestroyFault == Init /\ [][NextDestroyFault]_vars

\* ------------------------------------------------------------------ the buffer helpers on their own

\* Number of helper calls made on one buffer.
MaxSteps == 5

\* Sizes asked of allocate_buffer_safe.
Sizes == {0, 16, 4096}

\* A buffer, or a null reference, before any helper was applied to it.  The
\* exception of the last allocate_buffer_safe call is kept in exc, the
\* buffer in inBuf, the arguments of the last allocate call in args.
InitBuffer ==
    /\ build \in Builds
    /\ pc = "buffer"
    /\ op = "none"
    /\ args = [size |-> 0, alloc_ok |-> TRUE, before |-> NullBuffer]
    /\ inBuf \in {NullRef, NullBuffer}
    /\ outBuf = NullBuffer
    /\ params = NoParams
    /\ info = NoInfo
    /\ exc = NoExc
    /\ pending = NoView
    /\ result = NoResult
    /\ cnt = ZeroCnt
    /\ native = NoNative
    /\ heap = [p \in Ptrs |-> "unused"]
    /\ views = {}
    /\ released = {}
    /\ calls = 0

\* allocate_buffer_safe(&buffer, size, allocator) on a buffer that holds no
\* block (_core.cpp only).
AllocateSafe(size, alloc_ok) ==
    /\ pc = "buffer"
    /\ calls < MaxSteps
    /\ build # "minimal"
    /\ inBuf # NullRef
    /\ inBuf.ptr = 0
    /\ \E p \in Ptrs : heap[p] = "unused"
    /\ LET r == allocate_buffer_safe(inBuf, size, alloc_ok, heap)
       IN  /\ inBuf' = r.buffer
           /\ heap' = r.heap
           /\ exc' = r.exc
           /\ cnt' = [cnt EXCEPT !.allocs = @ + r.allocs,
                                 !.alloc_null = @ + r.alloc_null]
    /\ args' = [size |-> size, alloc_ok |-> alloc_ok, before |-> inBuf]
    /\ op' = "allocate_buffer_safe"
    /\ calls' = calls + 1
    /\ UNCHANGED <<build, pc, outBuf, params, info, pending, result, native,
                   views, released>>

\* cleanup_buffer_safe(&buffer, allocator)
CleanupSafe ==
    /\ pc = "buffer"
    /\ calls < MaxSteps
    /\ LET r == cleanup_buffer_safe(inBuf, heap)
       IN  /\ inBuf' = r.buffer
           /\ heap' = r.heap
           /\ cnt' = [cnt EXCEPT !.frees = @ + r.frees]
    /\ args' = [args EXCEPT !.before = inBuf]
    /\ op' = "cleanup_buffer_safe"
    /\ calls' = calls + 1
    /\ UNCHANGED <<build, pc, outBuf, params, info, exc, pending, result,
                   native, views, released>>

NextBuffer ==
    \/ \E size \in Sizes, alloc_ok \in BOOLEAN : AllocateSafe(size, alloc_ok)
    \/ CleanupSafe

SpecBuffer == InitBuffer /\ [][NextBuffer]_vars

\* ------------------------------------------------------------------ the metadata round trip

\* Length of the character arrays of gpr_exif_info (CAMERA_MAKE_SIZE and the
\* like), scaled down.
StrSize == 4

\* Number of fields of the input file's metadata that differ from the baseline.
MaxVaried == 2

NUL == 0

\* The fields of gpr_exif_info, by the type the bridge gives them.
StringFields == {"camera_make", "camera_model", "camera_serial",
                 "software_version", "user_comment", "image_description"}
UintFields == {"iso_speed_rating", "focal_length_in_35mm_film", "saturation"}
RationalFields == {"exposure_time", "f_stop_number", "aperture", "focal_length"}
OtherRationalFields == {"exposure_bias", "digital_zoom"}
EnumFields == {"exposure_program", "metering_mode", "light_source", "white_balance"}
OtherEnumFields == {"flash", "sharpness", "gain_control", "contrast",
                    "scene_capture_type", "exposure_mode", "scene_type",
                    "file_source", "sensing_method"}
DateFields == {"date_time_original", "date_time_digitized"}
ExifFields == StringFields \cup UintFields \cup RationalFields \cup OtherRationalFields
                  \cup EnumFields \cup OtherEnumFields \cup DateFields \cup {"gps_info"}

\* The key under which extract_exif_metadata gives a rational as a pair.
RationalKey(f) ==
    CASE f = "exposure_time" -> "exposure_time_rational"
      [] f = "f_stop_number" -> "f_stop_number_rational"
      [] f = "aperture"      -> "aperture_rational"
      [] f = "focal_length"  -> "focal_length_rational"
      [] f = "exposure_bias" -> "exposure_bias_rational"
      [] f = "digital_zoom"  -> "digital_zoom_rational"

\* A character array holding n characters, then NULs.
CharArray(n) == [i \in 1 .. StrSize |-> IF i <= n THEN 1 + (i % 2) ELSE NUL]

\* A character array whose string ended early and left old bytes behind it.
ResidueArray == [i \in 1 .. StrSize |-> IF i = 1 THEN 1 ELSE IF i = 2 THEN NUL ELSE 2]

Rational(n, d) == [numerator |-> n, denominator |-> d]

NoDate == [year |-> 0, month |-> 0, day |-> 0, hour |-> 0, minute |-> 0, second |-> 0]

\* The metadata every input file of the model shares.
BaseExif ==
    [f \in ExifFields |->
        CASE f \in StringFields -> CharArray(0)
          [] f \in UintFields -> 0
          [] f \in RationalFields \cup OtherRationalFields -> Rational(0, 1)
          [] f \in EnumFields \cup OtherEnumFields -> 0
          [] f \in DateFields -> NoDate
          [] OTHER -> [gps_info_valid |-> FALSE]]

\* The fields in which input files differ, and the values they take there.
VariedFields == StringFields \cup UintFields \cup RationalFields \cup EnumFields
                    \cup {"flash", "exposure_bias", "digital_zoom"}

FieldValues(f) ==
    CASE f \in StringFields -> {CharArray(1), CharArray(StrSize - 1), ResidueArray}
      [] f \in UintFields -> {100, UINT16_MAX}
      [] f \in RationalFields -> {Rational(1, 60), Rational(5, 0)}
      [] f = "exposure_bias" -> {Rational(-1, 3)}
      [] f = "digital_zoom" -> {Rational(2, 1)}
      [] OTHER -> {2}

\* std::string(const char*): the characters before the first NUL.
RECURSIVE CStringFrom(_, _)
CStringFrom(a, i) ==
    IF i > StrSize \/ a[i] = NUL THEN << >> ELSE <<a[i]>> \o CStringFrom(a, i + 1)

std_string(a) == CStringFrom(a, 1)

\* strncpy(dst, value.c_str(), SIZE - 1) that stops one character early.
strncpy_terminated_short(value) ==
    [i \in 1 .. StrSize |-> IF i <= Len(value) /\ i <= StrSize - 2 THEN value[i] ELSE NUL]

\* value.c_str() as strncpy reads it: the characters before the first NUL.
RECURSIVE CStringOf(_, _)
CStringOf(value, i) ==
    IF i > Len(value) \/ value[i] = NUL THEN << >>
    ELSE <<value[i]>> \o CStringOf(value, i + 1)

c_str(value) == CStringOf(value, 1)

\* strncpy(dst, value.c_str(), SIZE) with no terminator written after it.
strncpy_unterminated(value) ==
    [i \in 1 .. StrSize |-> IF i <= Len(c_str(value)) THEN c_str(value)[i] ELSE NUL]

\* strncpy(dst, value.c_str(), SIZE - 1); dst[SIZE - 1] = '\0'
strncpy_terminated(value) ==
    [i \in 1 .. StrSize |->
        IF i <= Len(c_str(value)) /\ i <= StrSize - 1 THEN c_str(value)[i] ELSE NUL]

\* Python values.
PyStr(s) == [t |-> "str", v |-> s]
PyInt(n) == [t |-> "int", v |-> n]
PyFloat(n, d) == [t |-> "float", num |-> n, den |-> d]
PyTuple(s) == [t |-> "tuple", v |-> s]
PyDict(d) == [t |-> "dict", v |-> d]

\* The keys of the dictionary extract_exif_metadata builds from exif.
ExifKeys(exif) ==
    StringFields \cup UintFields \cup EnumFields \cup OtherEnumFields \cup DateFields
        \cup {"gps_info"}
        \cup {f \in RationalFields \cup OtherRationalFields : exif[f].denominator # 0}
        \cup {RationalKey(f) : f \in {g \in RationalFields \cup OtherRationalFields :
                                          exif[g].denominator # 0}}

\* The dictionary extract_exif_metadata builds from exif.
exif_dict(exif) ==
    [k \in ExifKeys(exif) |->
        CASE k \in StringFields -> PyStr(std_string(exif[k]))
          [] k \in UintFields -> PyInt(exif[k])
          [] k \in EnumFields \cup OtherEnumFields -> PyInt(exif[k])
          [] k \in RationalFields \cup OtherRationalFields ->
                PyFloat(exif[k].numerator, exif[k].denominator)
          [] k \in DateFields -> PyDict(exif[k])
          [] k = "gps_info" -> PyDict([valid |-> exif[k].gps_info_valid])
          [] OTHER ->
                LET f == CHOOSE g \in RationalFields \cup OtherRationalFields :
                             RationalKey(g) = k
                IN  PyTuple(<<exif[f].numerator, exif[f].denominator>>)]

\* The fractions the minimal build reports.
MinimalRationalFields == {"exposure_time", "f_stop_number", "focal_length"}

\* The integers the minimal build reports.
MinimalUintFields == {"iso_speed_rating", "focal_length_in_35mm_film"}

\* The dictionary the minimal build's extract_exif_metadata builds from exif:
\* a fraction's decimal key is always set, to 0.0 when the denominator is zero.
exif_dict_minimal(exif) ==
    [k \in StringFields \cup MinimalRationalFields \cup MinimalUintFields |->
        CASE k \in StringFields -> PyStr(std_string(exif[k]))
          [] k \in MinimalRationalFields ->
                IF exif[k].denominator # 0
                THEN PyFloat(exif[k].numerator, exif[k].denominator)
                ELSE PyFloat(0, 1)
          [] OTHER -> PyInt(exif[k])]

EmptyDict == [k \in {} |-> PyInt(0)]

\* A test of the tuple that lets a longer tuple through.
TupleAccepted_longer(v) == Len(v) >= 2

\* if (rational.size() == 2)
TupleAccepted(v) == Len(v) = 2

\* py::cast<uint16_t> and py::cast<uint32_t> throw on a value out of range
\* (every value of the model is below 2^31).
CastFails(key, val) ==
    \/ key \in UintFields /\ val.t = "int" /\ val.v \notin 0 .. UINT16_MAX
    \/ /\ key \in {RationalKey(f) : f \in RationalFields}
       /\ val.t = "tuple" /\ TupleAccepted(val.v)
       /\ (val.v[1] < 0 \/ val.v[2] < 0)

\* One turn of modify_metadata's loop over exif_updates.
ApplyItem(exif, key, val) ==
    CASE key \in StringFields /\ val.t = "str" ->
            [exif EXCEPT ![key] = strncpy_terminated(val.v)]
      [] key \in UintFields /\ val.t = "int" ->
            [exif EXCEPT ![key] = val.v]
      [] key \in {RationalKey(f) : f \in RationalFields} /\ val.t = "tuple" ->
            LET f == CHOOSE g \in RationalFields : RationalKey(g) = key
            IN  IF TupleAccepted(val.v)
                THEN [exif EXCEPT ![f] = Rational(val.v[1], val.v[2])]
                ELSE exif
      [] key \in EnumFields /\ val.t = "int" ->
            [exif EXCEPT ![key] = val.v]
      [] OTHER -> exif

\* modify_metadata's loop over the items of exif_updates.
RECURSIVE ApplyItems(_, _, _)
ApplyItems(exif, updates, keys) ==
    IF keys = {} THEN exif
    ELSE LET k == CHOOSE x \in keys : TRUE
         IN  ApplyItems(ApplyItem(exif, k, updates[k]), updates, keys \ {k})

\* The metadata as the host reads it: strings up to their NUL, the rest as is.
ExifValue(exif) ==
    [f \in ExifFields |-> IF f \in StringFields THEN std_string(exif[f]) ELSE exif[f]]

\* An update the host wrote by hand, with a value no uint16_t holds.
BadUpdates == [k \in {"iso_speed_rating"} |-> PyInt(UINT16_MAX + 1)]

\* An update the host wrote by hand, under a name gpr_exif_info does not have.
UnknownUpdates == [k \in {"invalid_parameter"} |-> PyInt(42)]

\* Updates no branch of the loop takes: an unknown name, a value of another
\* type than its field, a rational that is no pair, a field with no branch.
IgnoredUpdates ==
    [k \in {"invalid_parameter", "camera_make", "iso_speed_rating",
            "exposure_time_rational", "aperture_rational", "exposure_program",
            "exposure_time", "flash"} |->
        CASE k = "camera_make" -> PyInt(7)
          [] k = "iso_speed_rating" -> PyStr(<<1, 2>>)
          [] k = "exposure_time_rational" -> PyTuple(<<1, 2, 3>>)
          [] k = "aperture_rational" -> PyStr(<<1>>)
          [] k = "exposure_program" -> PyFloat(1, 2)
          [] k = "exposure_time" -> PyFloat(1, 125)
          [] k = "flash" -> PyInt(1)
          [] OTHER -> PyInt(42)]

\* A string with a NUL character inside it.
NulUpdates == [k \in {"camera_make"} |-> PyStr(<<1, NUL, 2>>)]

\* The same with two entries the loop takes.
MixedUpdates ==
    [k \in DOMAIN IgnoredUpdates \cup {"camera_model", "focal_length_rational"} |->
        CASE k = "camera_model" -> PyStr(<<2, 1, 2, 1, 2, 1>>)
          [] k = "focal_length_rational" -> PyTuple(<<35, 1>>)
          [] OTHER -> IgnoredUpdates[k]]

\* The metadata that differ from the baseline in at most n fields.
RECURSIVE ExifVariants(_)
ExifVariants(n) ==
    IF n = 0 THEN {BaseExif}
    ELSE LET less == ExifVariants(n - 1)
         IN  less \cup UNION {UNION {{[e EXCEPT ![f] = v] : v \in FieldValues(f)} :
                                        f \in {g \in VariedFields : e[g] = BaseExif[g]}} :
                                 e \in less}

\* An input file whose metadata differs from the baseline in at most MaxVaried
\* fields; nothing extracted yet.  args.file is what gpr_parse_metadata finds
\* in the input file, args.out_file what the native write was handed.
InitRoundTrip ==
    /\ build \in {"enhanced", "minimal"}
    /\ pc = "file"
    /\ op = "none"
    /\ \E file \in ExifVariants(MaxVaried) :
          args = [path |-> InputPath, out |-> OutputPath, file |-> file,
                  extracted |-> EmptyDict, updates |-> EmptyDict,
                  out_file |-> BaseExif]
    /\ inBuf = NullBuffer
    /\ outBuf = NullBuffer
    /\ params = NoParams
    /\ info = NoInfo
    /\ exc = NoExc
    /\ pending = NoView
    /\ result = NoResult
    /\ cnt = ZeroCnt
    /\ native = NoNative
    /\ heap = [p \in Ptrs |-> "unused"]
    /\ views = {}
    /\ released = {}
    /\ calls = 0

\* extract_exif_metadata(path) on a readable file whose metadata parses: read,
\* parse, build the dictionary, destroy the parameters, free the input buffer.
ExtractExif(from, to) ==
    /\ pc = from
    /\ pc' = to
    /\ op' = "extract_exif_metadata"
    /\ LET file == IF from = "file" THEN args.file ELSE args.out_file
           d == IF build = "minimal" THEN exif_dict_minimal(file) ELSE exif_dict(file)
       IN  /\ params' = [NoParams EXCEPT !.parsed = TRUE] @@ [exif |-> file]
           /\ result' = [status |-> "ok", err |-> NoExc, raised |-> "none",
                         value |-> [kind |-> "dict", mock |-> FALSE, dict |-> d]]
           /\ args' = IF from = "file" THEN [args EXCEPT !.extracted = d] ELSE args
    /\ heap' = Free(Alloc(heap), FreshPtr(heap))
    /\ cnt' = [ZeroCnt EXCEPT !.allocs = 1, !.frees = 1, !.inits = 1,
                              !.parses = 1, !.destroys = 1]
    /\ calls' = calls + 1
    /\ UNCHANGED <<build, inBuf, outBuf, info, exc, pending, native, views, released>>

\* modify_metadata(path, out, updates) on the same file, the native conversion
\* and the write succeeding: parse, apply the updates, convert, write, clean up.
\* A cast that throws is wrapped by the std::exception handler.
ModifyMetadata(updates) ==
    /\ build = "enhanced"
    /\ pc = "extracted"
    /\ op' = "modify_metadata"
    /\ args' = [args EXCEPT !.updates = updates,
                            !.out_file = IF \E k \in DOMAIN updates : CastFails(k, updates[k])
                                         THEN @
                                         ELSE ApplyItems(args.file, updates, DOMAIN updates)]
    /\ IF \E k \in DOMAIN updates : CastFails(k, updates[k])
       THEN /\ pc' = "failed"
            /\ params' = [NoParams EXCEPT !.parsed = TRUE] @@ [exif |-> args.file]
            /\ result' = [status |-> "error", value |-> NoValue,
                          err |-> Thrown(build, "modify_metadata", StdException(What),
                                         args.path, args.out),
                          raised |-> Translate(build,
                                        Thrown(build, "modify_metadata", StdException(What),
                                               args.path, args.out).kind)]
            /\ heap' = Free(Alloc(heap), FreshPtr(heap))
            /\ cnt' = [ZeroCnt EXCEPT !.allocs = 1, !.frees = 1, !.inits = 1,
                                      !.parses = 1, !.destroys = 1]
       ELSE /\ pc' = "modified"
            /\ params' = [NoParams EXCEPT !.parsed = TRUE]
                            @@ [exif |-> ApplyItems(args.file, updates, DOMAIN updates)]
            /\ result' = [status |-> "ok", err |-> NoExc, raised |-> "none",
                          value |-> [kind |-> "bool", ok |-> TRUE]]
            /\ heap' = LET h1 == Alloc(heap)
                           h2 == Alloc(h1)
                       IN  Free(Free(h2, FreshPtr(heap)), FreshPtr(h1))
            /\ cnt' = [ZeroCnt EXCEPT !.allocs = 2, !.frees = 2, !.inits = 1,
                                      !.parses = 1, !.converts = 1, !.writes = 1,
                                      !.destroys = 1]
    /\ calls' = calls + 1
    /\ UNCHANGED <<build, inBuf, outBuf, info, exc, pending, native, views, released>>

\* The minimal build's modify_metadata: throws std::runtime_error at once.
ModifyMetadataStub(updates) ==
    /\ build = "minimal"
    /\ pc = "extracted"
    /\ pc' = "failed"
    /\ op' = "modify_metadata"
    /\ args' = [args EXCEPT !.updates = updates]
    /\ params' = NoParams
    /\ result' = [status |-> "error", value |-> NoValue,
                  err |-> StdException("Metadata modification not yet implemented"),
                  raised |-> Translate(build, "std")]
    /\ cnt' = ZeroCnt
    /\ calls' = calls + 1
    /\ UNCHANGED <<build, inBuf, outBuf, info, exc, pending, native, heap, views,
                   released>>

NextRoundTrip ==
    \/ ExtractExif("file", "extracted")
    \/ \E u \in {args.extracted, EmptyDict} : ModifyMetadataStub(u)
    \/ \E u \in {args.extracted, EmptyDict, BadUpdates, UnknownUpdates,
                  IgnoredUpdates, MixedUpdates, NulUpdates} :
          ModifyMetadata(u)
    \/ ExtractExif("modified", "reextracted")

SpecRoundTrip == InitRoundTrip /\ [][NextRoundTrip]_vars

\* ------------------------------------------------------------------ concurrent calls

\* Number of host threads, each making one call.
NThreads == 2

Threads == 1 .. NThreads

ThreadOps == {"convert_gpr_to_dng", "extract_exif_metadata"}

\* Locals that are one static object shared by every call.
LocalsOf_static(t) == 1

\* The locals of the call thread t makes (allocator, input_buffer,
\* output_buffer, parameters): automatic variables, one set per call.
LocalsOf(t) == t

\* The thread whose call allocated the block at p; 0 for a null pointer.
AllocatedBy(owner, p) == IF p \in Ptrs THEN owner[p] ELSE 0

\* The blocks a step frees.
FreedBy(h, h2) == {p \in Ptrs : h[p] = "live" /\ h2[p] # "live"}

\* Every thread idle.  inBuf, outBuf and params hold the locals of each call;
\* the heap is the one process heap behind gpr_global_malloc; native records
\* the thread whose call allocated each block, views the buffer reads and
\* released the frees, each with the acting thread and the block's allocator.
InitThreads ==
    /\ build = "enhanced"
    /\ pc = [t \in Threads |-> "idle"]
    /\ op = [t \in Threads |-> "none"]
    /\ args = [path |-> InputPath, out |-> OutputPath, fileState |-> "valid",
               image |-> [width |-> 640, height |-> 480], dtype |-> "uint16"]
    /\ inBuf = [l \in Threads |-> NullBuffer]
    /\ outBuf = [l \in Threads |-> NullBuffer]
    /\ params = [l \in Threads |-> NoParams]
    /\ info = NoInfo
    /\ exc = [t \in Threads |-> NoExc]
    /\ pending = NoView
    /\ result = [t \in Threads |-> NoResult]
    /\ cnt = [t \in Threads |-> ZeroCnt]
    /\ native = [p \in Ptrs |-> 0]
    /\ heap = [p \in Ptrs |-> "unused"]
    /\ views = {}
    /\ released = {}
    /\ calls = 0

\* Thread t calls o on a valid file: validation passes, the locals are set up.
ThreadCall(t, o) ==
    /\ pc[t] = "idle"
    /\ o \in OpsOf(build) \cap ThreadOps
    /\ op' = [op EXCEPT ![t] = o]
    /\ inBuf' = [inBuf EXCEPT ![LocalsOf(t)] = NullBuffer]
    /\ outBuf' = [outBuf EXCEPT ![LocalsOf(t)] = NullBuffer]
    /\ params' = [params EXCEPT ![LocalsOf(t)] = NoParams]
    /\ pc' = [pc EXCEPT ![t] = "read"]
    /\ calls' = calls + 1
    /\ UNCHANGED <<build, args, info, exc, pending, result, cnt, native, heap,
                   views, released>>

\* read_file_to_buffer(input_path, &input_buffer, &allocator)
ThreadRead(t, r) ==
    /\ pc[t] = "read"
    /\ LET rd == read_file_to_buffer(r, heap, tellg(args.fileState, args.image))
       IN  /\ heap' = rd.heap
           /\ inBuf' = [inBuf EXCEPT ![LocalsOf(t)] = rd.buffer]
           /\ cnt' = [cnt EXCEPT ![t].allocs = @ + rd.allocs, ![t].frees = @ + rd.frees]
           /\ native' = IF rd.allocs = 1 THEN [native EXCEPT ![FreshPtr(heap)] = t]
                                         ELSE native
           /\ released' = released \cup
                              {[by |-> t, of |-> t] : p \in FreedBy(Alloc(heap), rd.heap)}
           /\ IF rd.ok
              THEN /\ pc' = [pc EXCEPT ![t] = "params"]
                   /\ exc' = exc
              ELSE /\ pc' = [pc EXCEPT ![t] = "catch"]
                   /\ exc' = [exc EXCEPT ![t] = ReadError(build, op[t], args.path)]
    /\ UNCHANGED <<build, op, args, outBuf, params, info, pending, result, views, calls>>

\* gpr_parameters_set_defaults(&parameters); parameters_initialized = true
ThreadInitParameters(t) ==
    /\ pc[t] = "params"
    /\ params' = [params EXCEPT ![LocalsOf(t)] =
                      [live |-> TRUE, flag |-> TRUE, payload |-> 0, parsed |-> FALSE]]
    /\ cnt' = [cnt EXCEPT ![t].inits = @ + 1]
    /\ pc' = [pc EXCEPT ![t] = "native"]
    /\ UNCHANGED <<build, op, args, inBuf, outBuf, info, exc, pending, result,
                   native, heap, views, released, calls>>

\* The native call of the operation, reading the input buffer of the call:
\* gpr_parse_metadata, which may attach a block to the parameters, or
\* gpr_convert_gpr_to_dng, which may allocate the output buffer; then the
\* wrapper's checks of the return value and of the output buffer.
ThreadNative(t, ret, block) ==
    /\ pc[t] = "native"
    /\ views' = views \cup {[by |-> t, of |-> AllocatedBy(native, inBuf[LocalsOf(t)].ptr)]}
    /\ heap' = IF block THEN Alloc(heap) ELSE heap
    /\ native' = IF block THEN [native EXCEPT ![FreshPtr(heap)] = t] ELSE native
    /\ IF op[t] \in ExtractOps
       THEN /\ params' = [params EXCEPT ![LocalsOf(t)].parsed = ret,
                                        ![LocalsOf(t)].payload =
                                            IF block THEN FreshPtr(heap) ELSE 0]
            /\ outBuf' = outBuf
            /\ cnt' = [cnt EXCEPT ![t].parses = @ + 1,
                                  ![t].allocs = @ + (IF block THEN 1 ELSE 0)]
            /\ IF ret
               THEN /\ pc' = [pc EXCEPT ![t] = "cleanup"]
                    /\ exc' = exc
               ELSE /\ pc' = [pc EXCEPT ![t] = "catch"]
                    /\ exc' = [exc EXCEPT ![t] = ParseFailError(op[t], args.path)]
       ELSE /\ outBuf' = [outBuf EXCEPT ![LocalsOf(t)] =
                              IF block
                              THEN [ptr |-> FreshPtr(heap), size |-> OutputSize(op[t], args)]
                              ELSE NullBuffer]
            /\ params' = params
            /\ cnt' = [cnt EXCEPT ![t].converts = @ + 1,
                                  ![t].allocs = @ + (IF block THEN 1 ELSE 0)]
            /\ CASE ~ret ->
                      /\ pc' = [pc EXCEPT ![t] = "catch"]
                      /\ exc' = [exc EXCEPT ![t] =
                                     NativeFailError(build, op[t], args.path, args.out)]
                 [] ret /\ ~block ->
                      /\ pc' = [pc EXCEPT ![t] = "catch"]
                      /\ exc' = [exc EXCEPT ![t] = EmptyOutputError]
                 [] OTHER ->
                      /\ pc' = [pc EXCEPT ![t] = "write"]
                      /\ exc' = exc
    /\ UNCHANGED <<build, op, args, inBuf, info, pending, result, released, calls>>

\* write_buffer_to_file(&output_buffer, output_path), reading the output buffer.
ThreadWrite(t, ok) ==
    /\ pc[t] = "write"
    /\ views' = views \cup {[by |-> t, of |-> AllocatedBy(native, outBuf[LocalsOf(t)].ptr)]}
    /\ cnt' = [cnt EXCEPT ![t].writes = @ + 1]
    /\ IF ok
       THEN /\ pc' = [pc EXCEPT ![t] = "cleanup"]
            /\ exc' = exc
       ELSE /\ pc' = [pc EXCEPT ![t] = "catch"]
            /\ exc' = [exc EXCEPT ![t] = WriteError(build, op[t], args.out)]
    /\ UNCHANGED <<build, op, args, inBuf, outBuf, params, info, pending, result,
                   native, heap, released, calls>>

\* The clean-up of the success path (pc = "cleanup") or of the handler that
\* caught the exception (pc = "catch"), then the return or the rethrow.
ThreadRelease(t) ==
    /\ pc[t] \in {"cleanup", "catch"}
    /\ LET l == LocalsOf(t)
           r == Release(build, op[t], params[l], inBuf[l], outBuf[l], heap,
                        params[l].flag, TRUE)
       IN  /\ params' = [params EXCEPT ![l] = r.params]
           /\ inBuf' = [inBuf EXCEPT ![l] = r.inBuf]
           /\ outBuf' = [outBuf EXCEPT ![l] = r.outBuf]
           /\ heap' = r.heap
           /\ cnt' = [cnt EXCEPT ![t].frees = @ + r.frees, ![t].destroys = @ + r.destroys]
           /\ released' = released \cup
                              {[by |-> t, of |-> native[p]] : p \in FreedBy(heap, r.heap)}
    /\ result' = [result EXCEPT ![t] =
                      IF pc[t] = "cleanup"
                      THEN [status |-> "ok", err |-> NoExc, raised |-> "none",
                            value |-> [kind |-> IF op[t] \in ExtractOps
                                                THEN "dict" ELSE "bool"]]
                      ELSE [status |-> "error", value |-> NoValue,
                            err |-> Thrown(build, op[t], exc[t], args.path, args.out),
                            raised |-> Translate(build, exc[t].kind)]]
    /\ exc' = [exc EXCEPT ![t] = NoExc]
    /\ pc' = [pc EXCEPT ![t] = "done"]
    /\ UNCHANGED <<build, op, args, info, pending, native, views, calls>>

NextThreads ==
    \E t \in Threads :
        \/ \E o \in ThreadOps : ThreadCall(t, o)
        \/ \E r \in ReadOutcomes : ThreadRead(t, r)
        \/ ThreadInitParameters(t)
        \/ \E ret \in BOOLEAN, block \in BOOLEAN : ThreadNative(t, ret, block)
        \/ \E ok \in BOOLEAN : ThreadWrite(t, ok)
        \/ ThreadRelease(t)

SpecThreads == InitThreads /\ [][NextThreads]_vars

\* ------------------------------------------------------------------ properties

\* The call that just returned handed the caller a uint16 array.
ReturnedUint16View ==
    /\ pc = "done"
    /\ op = "get_raw_image_data"
    /\ result.status = "ok"
    /\ args.dtype = "uint16"

\* C1 (as stated): when control returns to the caller, on every exit path of
\* every operation, the buffers allocated through the allocator during the call
\* equal in number the buffers freed through it.
C1_AllocsEqualFrees ==
    pc = "done" => cnt.allocs = cnt.frees

\* C1 (amended): when control returns to the caller the allocations and frees
\* of the call balance on every exit path but one: after get_raw_image_data
\* succeeds with dtype "uint16" exactly one block, the output buffer the array
\* was built over, is still allocated.
C1_BalancedExceptReturnedView ==
    pc = "done" =>
        /\ cnt.allocs = cnt.frees + (IF ReturnedUint16View THEN 1 ELSE 0)
        /\ ReturnedUint16View => heap[result.value.view.buf] = "live"

\* A call that acquired input and output buffers and ended in an error, with
\* both released, while the array of an earlier uint16 call is still held.
C1_Witness ==
    /\ pc = "done"
    /\ result.status = "error"
    /\ cnt.allocs >= 2
    /\ cnt.allocs = cnt.frees
    /\ \E v \in views : v.dtype = "uint16"

\* C2 (as stated): the output buffer of a successful uint16 get_raw_image_data
\* is not freed while the returned array is held, and it has been freed, once,
\* after the array is released.
C2_ViewReleaseFreesBuffer ==
    /\ \A v \in views : v.dtype = "uint16" => heap[v.buf] = "live"
    /\ \A v \in released : v.dtype = "uint16" => heap[v.buf] = "freed"

\* C3: the native buffer a held array of get_raw_image_data was built over has
\* not been freed, whatever later calls and their error handlers free.
C3_HeldViewBufferLive ==
    \A v \in views : v.buf # 0 => heap[v.buf] = "live"

\* An array that aliases the native buffer is held while a later
\* get_raw_image_data call has failed and its handler freed that call's buffers.
C3_Witness ==
    /\ pc = "done"
    /\ op = "get_raw_image_data"
    /\ result.status = "error"
    /\ cnt.frees >= 3
    /\ \E v \in views : v.data = "native" /\ v.id < calls

\* The owners of block p: the running call, through its input buffer, its
\* output buffer or the payload of its parameters, and every array whose base
\* object frees the block.
Owners(p) ==
    (IF pc \notin {"idle", "done"} /\ inBuf.ptr = p THEN {"input_buffer"} ELSE {})
    \cup (IF pc \notin {"idle", "done"} /\ outBuf.ptr = p THEN {"output_buffer"} ELSE {})
    \cup (IF pc \notin {"idle", "done"} /\ params.live /\ params.payload = p
          THEN {"parameters"} ELSE {})
    \cup {v.id : v \in {w \in views : w.base = "owner" /\ w.buf = p}}

\* C4 (as stated): every allocated native buffer has exactly one owner at every
\* instant, and no pointer is passed to the allocator's free function twice.
C4_OneOwnerNoDoubleFree ==
    \A p \in Ptrs :
        /\ heap[p] # "double"
        /\ heap[p] = "live" => Cardinality(Owners(p)) = 1

\* C5 (as stated): the parameters are never destroyed more often than they were
\* set up, and when control returns to the caller every set-up has been
\* matched by one destroy.
C5_ParametersDestroyedOnce ==
    /\ cnt.destroys <= cnt.inits
    /\ pc = "done" => cnt.destroys = cnt.inits /\ ~params.live

\* C6 (as stated): every operation validates its input path first: a missing
\* file fails with GPRFileError, code -2 and the given path as filepath, an
\* empty file with GPRFileError and code -4, and in both cases nothing was
\* allocated and no native function was called.
C6_InputValidatedFirst ==
    pc = "done" /\ args.fileState \in {"missing", "empty"} =>
        /\ result.status = "error"
        /\ result.err.kind = "GPRFileError"
        /\ result.err.error_code = (IF args.fileState = "missing" THEN -2 ELSE -4)
        /\ args.fileState = "missing" => result.err.filepath = args.path
        /\ cnt.allocs = 0 /\ cnt.inits = 0 /\ cnt.parses = 0 /\ cnt.converts = 0

\* C7 (as stated): when the native call of a file-to-file conversion returns
\* false, the caller gets a GPRConversionError that names the operation, the
\* input path and the output path, and every buffer of the call was released.
C7_NativeFailureCarriesContext ==
    pc = "done" /\ op \in ConvertOps /\ native.convert = "false" =>
        /\ result.status = "error"
        /\ result.err.kind = "GPRConversionError"
        /\ result.err.ctx.operation # ""
        /\ result.err.ctx.input = args.path
        /\ result.err.ctx.output = args.out
        /\ cnt.allocs = cnt.frees

\* C8 (as stated): a failure that is no GPRError (a std::exception, a pybind11
\* fault, an unknown native fault) reaches the caller as an exception of the
\* GPRError family that carries the original what() text when there was one;
\* no other exception type leaves an operation of any build.
C8_UntypedFailureWrapped ==
    pc = "done" /\ result.status = "error" /\ native.fault # "none" =>
        /\ result.err.kind \in GPRKinds
        /\ native.fault = "std" => result.err.orig = What

C10_ViewShapeMatchesImage ==
    pc = "done" /\ op = "get_raw_image_data" /\ Style(build, op) # "stub"
        /\ args.dtype = "uint16" /\ native.convert = "true"
        /\ native.out = "full" /\ native.fault = "none" =>
        /\ result.status = "ok"
        /\ result.value.view.shape = <<args.image.height, args.image.width>>
        /\ result.value.view.strides = <<args.image.width * sizeof_uint16_t,
                                         sizeof_uint16_t>>
        /\ result.value.view.host_allocs = 0

\* The decoder succeeded on a valid file and delivered the whole image, and
\* nothing faulted afterwards, in a build that implements get_raw_image_data.
DecodedWholeImage(dtype) ==
    /\ pc = "done"
    /\ op = "get_raw_image_data"
    /\ Style(build, op) # "stub"
    /\ args.fileState = "valid"
    /\ args.dtype = dtype
    /\ native.convert = "true"
    /\ native.out = "full"
    /\ native.fault = "none"

\* C11 (as stated): for every valid input get_raw_image_data with dtype
\* "float32" returns height * width values of the image, each the 16-bit
\* element divided by 65535, so each lies between 0 and 1.
C11_FloatViewNormalized ==
    DecodedWholeImage("float32") =>
        /\ result.status = "ok"
        /\ result.value.view.count = args.image.height * args.image.width
        /\ result.value.view.elem = [num |-> native.px, den |-> UINT16_MAX]
        /\ 0 <= result.value.view.elem.num
        /\ result.value.view.elem.num <= result.value.view.elem.den

\* C12: cleanup_buffer_safe on a null reference or on a buffer whose pointer
\* is null frees nothing and changes nothing; on an allocated buffer it frees
\* the block once and leaves {nullptr, 0}; so however often it is called, no
\* block is freed twice and frees never exceed allocations.
C12_CleanupIdempotent ==
    /\ [](cnt.frees <= cnt.allocs /\ \A p \in Ptrs : heap[p] # "double")
    /\ [][op' = "cleanup_buffer_safe" /\ calls' = calls + 1 =>
             IF inBuf # NullRef /\ inBuf.ptr # 0
             THEN /\ cnt'.frees = cnt.frees + 1
                  /\ heap' = [heap EXCEPT ![inBuf.ptr] = "freed"]
                  /\ inBuf' = NullBuffer
             ELSE /\ cnt'.frees = cnt.frees
                  /\ heap' = heap
                  /\ inBuf' = inBuf]_vars

\* cleanup_buffer_safe has just run on a buffer that an earlier call of it
\* had already released.
C12_Witness ==
    /\ pc = "buffer"
    /\ op = "cleanup_buffer_safe"
    /\ args.before = NullBuffer
    /\ inBuf = NullBuffer
    /\ cnt.frees = 1

\* C13: allocate_buffer_safe with size 0 throws GPRParameterError naming
\* "buffer_size" and does not call the allocator; with size > 0 and a null
\* from the allocator it throws GPRMemoryError whose requested_size is size;
\* otherwise the buffer holds a live block and size.
C13_AllocateSafe ==
    [][op' = "allocate_buffer_safe" /\ calls' = calls + 1 =>
          CASE args'.size = 0 ->
                   /\ exc'.kind = "GPRParameterError"
                   /\ exc'.parameter_name = "buffer_size"
                   /\ cnt'.allocs = cnt.allocs
                   /\ cnt'.alloc_null = cnt.alloc_null
                   /\ heap' = heap
            [] args'.size # 0 /\ ~args'.alloc_ok ->
                   /\ exc'.kind = "GPRMemoryError"
                   /\ exc'.requested_size = args'.size
                   /\ cnt'.alloc_null = cnt.alloc_null + 1
            [] OTHER ->
                   /\ exc' = NoExc
                   /\ inBuf'.ptr # 0
                   /\ heap[inBuf'.ptr] = "unused"
                   /\ heap'[inBuf'.ptr] = "live"
                   /\ inBuf'.size = args'.size]_vars

\* allocate_buffer_safe has failed on a null from the allocator.
C13_Witness ==
    /\ pc = "buffer"
    /\ op = "allocate_buffer_safe"
    /\ args.size = 4096
    /\ ~args.alloc_ok
    /\ exc.kind = "GPRMemoryError"

\* C14 (as stated): every GPRMemoryError that reaches the caller carries the
\* code -10, every GPRParameterError -20 and every GPRFormatError -30 (or -31).
C14_CanonicalCodes ==
    pc = "done" /\ result.status = "error" =>
        /\ result.err.kind = "GPRMemoryError" =>
               result.err.error_code = ERROR_CODE_MEMORY
        /\ result.err.kind = "GPRParameterError" =>
               result.err.error_code = ERROR_CODE_PARAMETER
        /\ result.err.kind = "GPRFormatError" =>
               result.err.error_code \in {ERROR_CODE_FORMAT, ERROR_CODE_FORMAT - 1}

\* C15 (as stated): an input file that exists and cannot be opened because
\* access is denied fails validation with GPRFileError and the code -3, not
\* the code -2 of a missing file.
C15_PermissionCode ==
    pc = "done" /\ args.fileState = "denied" =>
        /\ result.status = "error"
        /\ result.err.kind = "GPRFileError"
        /\ result.err.error_code = ERROR_CODE_FILE_PERMISSION
        /\ result.err.error_code # ERROR_CODE_FILE_NOT_FOUND

\* C16 (as stated): when reading the validated input file into the input
\* buffer fails, the operation fails with GPRFileError, code -1 and the input
\* path as filepath, and no native function was called.
C16_ReadFailureIsFileError ==
    pc = "done" /\ native.read \in {"fail_open", "fail_read"} =>
        /\ result.status = "error"
        /\ result.err.kind = "GPRFileError"
        /\ result.err.error_code = -1
        /\ result.err.filepath = args.path
        /\ cnt.parses = 0
        /\ cnt.converts = 0

\* C17 (as stated): when the native call returns true and leaves the output
\* buffer null or of size 0, the operation fails with GPRConversionError and
\* the destination is not written.
C17_EmptyOutputRejected ==
    pc = "done" /\ native.convert = "true" /\ native.out \in {"null", "zero"} =>
        /\ result.status = "error"
        /\ result.err.kind = "GPRConversionError"
        /\ cnt.writes = 0

\* C18 (as stated): when an operation unwinds from an error, whether or not
\* a clean-up step of the handler faults, the caller receives the error the
\* handler delivers for the original exception, and the input and the output
\* buffer have been released.
C18_CleanupFaultSuppressed ==
    [][pc = "catch" /\ pc' = "done" /\ HandlerCatches(build, op, exc) =>
          /\ result'.err = Thrown(build, op, exc, args.path, args.out)
          /\ inBuf.ptr # 0 => heap'[inBuf.ptr] = "freed"
          /\ outBuf.ptr # 0 => heap'[outBuf.ptr] = "freed"]_vars

\* The typed kinds below the common base.
TypedKinds == GPRKinds \ {"GPRError"}

\* C19 (as stated): every typed error that reaches the host is raised as the
\* Python type of its own class, and both 'except <that type>' and
\* 'except GPRError' catch it.
C19_CatchBySpecificOrBase ==
    pc = "done" /\ result.status = "error" /\ result.err.kind \in TypedKinds =>
        /\ result.raised = result.err.kind
        /\ PyCaughtBy(build, result.raised, result.err.kind)
        /\ PyCaughtBy(build, result.raised, "GPRError")

\* C20: when the mapping extract_exif_metadata produced for a file is passed
\* unchanged as the updates of modify_metadata on that file, every metadata
\* field handed to the native write equals the value parsed from the input,
\* and extracting from the output gives the same mapping (the same strings,
\* integers and numerator/denominator pairs) as the first extraction.
C20_RoundTripPreservesFields ==
    /\ pc \in {"modified", "reextracted"} /\ args.updates = args.extracted =>
          /\ ExifValue(args.out_file) = ExifValue(args.file)
          /\ pc = "modified" => ExifValue(params.exif) = ExifValue(args.file)
    /\ pc = "reextracted" /\ args.updates = args.extracted =>
          result.value.dict = args.extracted

\* A round trip was made on a file with a string that fills its array, a
\* string followed by old bytes, or a rational with a nonzero denominator
\* next to one with a zero denominator.
C20_Witness ==
    /\ pc = "reextracted"
    /\ args.updates = args.extracted
    /\ args.extracted # EmptyDict
    /\ \/ /\ args.file["camera_make"] = CharArray(StrSize - 1)
          /\ args.file["exposure_time"] = Rational(1, 60)
       \/ /\ args.file["user_comment"] = ResidueArray
          /\ args.file["focal_length"] = Rational(5, 0)
    /\ args.out_file # BaseExif

\* C21: when field updates are applied, an unknown field name makes
\* modify_metadata fail with ParameterError, and an out-of-range value makes it
\* fail with ParameterError carrying the field name; no such entry is accepted.
C21_UpdatesValidated ==
    /\ op = "modify_metadata"
    /\ \E k \in DOMAIN args.updates :
          k \notin ExifKeys(BaseExif) \cup {RationalKey(f) : f \in RationalFields}
             \/ CastFails(k, args.updates[k])
    => /\ result.status = "error"
       /\ result.err.kind = "GPRParameterError"
       /\ result.err.param \in DOMAIN args.updates

\* C22: get_raw_image_data fails with FormatError, and returns no view,
\* whenever the height or width of the image is less than or equal to 0, and
\* the rejection happens before any buffer of that call is allocated.
C22_NonPositiveDimensionsRejected ==
    /\ pc = "done" /\ op = "get_raw_image_data"
    /\ Style(build, op) # "stub"
    /\ args.fileState = "valid" /\ SupportedDtype(args.dtype)
    /\ native.read = "ok"
    /\ args.image.width <= 0 \/ args.image.height <= 0
    => /\ result.status = "error"
       /\ result.err.kind = "GPRFormatError"
       /\ cnt.allocs = 0

C25_ParseFailureIsError ==
    /\ pc = "done" /\ op \in ExtractOps
    /\ native.parse \in {"false", "std", "unknown"}
    => /\ result.status = "error"
       /\ result.err.kind = "GPRConversionError"
       /\ result.value = NoValue

\* C26: get_image_info returns the dimensions of the image stored in the file:
\* width and height equal that image's width and height, and data_size equals
\* width * height * channels * 2.
C26_InfoMatchesImage ==
    pc = "done" /\ op = "get_image_info" /\ result.status = "ok" =>
        /\ result.value.info.width = args.image.width
        /\ result.value.info.height = args.image.height
        /\ result.value.info.data_size =
               args.image.width * args.image.height * result.value.info.channels * 2

\* C27: on the float32 path of get_raw_image_data the native output buffer is
\* live while the elements are copied, is freed exactly once by the clean-up
\* that follows the copy of every element into the host-owned block, before
\* the call returns, and the returned view refers to the host-owned block only.
C27_FloatPathFreesAfterCopy ==
    /\ [](op = "get_raw_image_data" /\ args.dtype = "float32" /\ pc \in {"view", "cleanup"}
             => outBuf.ptr # 0 /\ heap[outBuf.ptr] = "live")
    /\ [][op = "get_raw_image_data" /\ args.dtype = "float32"
             /\ pc = "cleanup" /\ pc' = "done"
          => /\ pending.count = info.height * info.width
             /\ pending.data = "host"
             /\ heap'[outBuf.ptr] = "freed"
             /\ outBuf' = NullBuffer
             /\ result'.status = "ok"
             /\ result'.value.view = pending
             /\ result'.value.view.buf # outBuf.ptr
             /\ result'.value.view.base # "owner"]_vars

\* A float32 view was returned and the block the decoder filled is freed.
C27_Witness ==
    /\ pc = "done" /\ op = "get_raw_image_data" /\ args.dtype = "float32"
    /\ result.status = "ok" /\ result.value.view.dtype = "float32"
    /\ native.px = UINT16_MAX
    /\ cnt.allocs = 3 /\ cnt.frees = 3
    /\ \E p \in Ptrs : heap[p] = "freed"

\* C28: provided every file-system call and native call returns, every
\* operation terminates, either returning its result or raising exactly one
\* error; nothing is retried: within one call the metadata parse and the
\* native conversion are each invoked at most once.
C28_TerminatesWithoutRetry ==
    /\ [](cnt.parses <= 1 /\ cnt.converts <= 1 /\ cnt.writes <= 1)
    /\ [](pc = "done" =>
             \/ result.status = "ok" /\ result.err = NoExc /\ result.value # NoValue
             \/ result.status = "error" /\ result.err # NoExc /\ result.value = NoValue)
    /\ (pc \notin {"idle", "done"} ~> pc = "done")

\* modify_metadata ran its parse and its conversion and returned.
C28_Witness ==
    /\ pc = "done" /\ op = "modify_metadata" /\ result.status = "ok"
    /\ cnt.parses = 1 /\ cnt.converts = 1 /\ cnt.writes = 1

\* C29: when an operation fails at the validation of its input file, or
\* get_raw_image_data at its dtype check, that call has made no allocator call
\* and has initialised no parameters: its allocate, free and parameter-init
\* counts are all 0.
C29_EarlyFailureAllocatesNothing ==
    /\ pc = "done" /\ Style(build, op) # "stub"
       /\ \/ args.fileState # "valid"
          \/ op = "get_raw_image_data" /\ ~SupportedDtype(args.dtype)
       => /\ result.status = "error"
          /\ cnt.allocs = 0 /\ cnt.frees = 0 /\ cnt.inits = 0
    /\ pc = "done" /\ result.status = "error"
       /\ \/ result.err.kind = "GPRFileError" /\ result.err.error_code \in {-2, -3, -4}
          \/ result.err.kind = "GPRParameterError" /\ result.err.parameter_name = "dtype"
       => cnt.allocs = 0 /\ cnt.frees = 0 /\ cnt.inits = 0

\* get_raw_image_data was refused for its dtype on a valid file, after an
\* earlier call; nothing was allocated by the refused call.
C29_Witness ==
    /\ pc = "done" /\ op = "get_raw_image_data" /\ calls = 2
    /\ args.fileState = "valid" /\ args.dtype = "uint8"
    /\ result.status = "error" /\ result.err.kind = "GPRParameterError"
    /\ cnt.allocs = 0 /\ cnt.inits = 0

\* C30: in every conversion and in modify_metadata the destination path is
\* written at most once per call and only after the native call has reported
\* success; on a failure before the write step (validation, read, parse,
\* update application, native failure, empty output) the destination is never
\* opened or written by that call.
C30_DestinationWrittenOnceAfterSuccess ==
    op \in ConvertOps \cup {"modify_metadata"} =>
        /\ cnt.writes <= 1
        /\ cnt.writes = 1 => native.convert = "true"
        /\ \/ native.read \in {"fail_open", "fail_read"}
           \/ native.parse \in {"false", "std", "unknown"}
           \/ native.convert \in {"false", "std", "unknown"}
           \/ native.out \in {"null", "zero"}
           \/ pc = "done" /\ args.fileState # "valid"
           \/ pc = "done" /\ native.convert = "none"
           => cnt.writes = 0

AcceptedEntry(updates, f) ==
    \/ f \in StringFields /\ f \in DOMAIN updates /\ updates[f].t = "str"
    \/ f \in UintFields \cup EnumFields /\ f \in DOMAIN updates /\ updates[f].t = "int"
    \/ /\ f \in RationalFields /\ RationalKey(f) \in DOMAIN updates
       /\ updates[RationalKey(f)].t = "tuple"
       /\ Len(updates[RationalKey(f)].v) = 2

\* C32: in modify_metadata an update entry whose key is not a recognised field
\* name, whose value has the wrong type for its key, or whose tuple length is
\* not 2, changes no metadata field and raises no error; every field not named
\* by an accepted entry keeps the value parsed from the input file.
C32_RejectedEntriesChangeNothing ==
    /\ op = "modify_metadata" /\ args.updates \in {UnknownUpdates, IgnoredUpdates} =>
          /\ pc = "modified"
          /\ result.status = "ok"
          /\ args.out_file = args.file
    /\ pc = "modified" =>
          \A f \in ExifFields :
              ~AcceptedEntry(args.updates, f) => args.out_file[f] = args.file[f]

\* Updates with ignored and accepted entries were applied to a file whose
\* exposure time and camera make differ from the baseline.
C32_Witness ==
    /\ pc = "modified" /\ args.updates = MixedUpdates
    /\ args.file["exposure_time"] = Rational(1, 60)
    /\ args.file["camera_make"] = CharArray(1)
    /\ args.out_file["exposure_time"] = Rational(1, 60)
    /\ args.out_file["focal_length"] = Rational(35, 1)

\* The smaller of two numbers.
Min(a, b) == IF a <= b THEN a ELSE b

\* C33 (as stated): after modify_metadata updates a string field with a string
\* of any length, the stored field is NUL-terminated within its capacity and
\* holds the first min(length, capacity - 1) characters of the given string.
C33_StoredPrefixOfGivenString ==
    pc = "modified" =>
        \A f \in StringFields :
            f \in DOMAIN args.updates /\ args.updates[f].t = "str" =>
                LET v == args.updates[f].v
                    a == args.out_file[f]
                IN  /\ DOMAIN a = 1 .. StrSize
                    /\ a[StrSize] = NUL
                    /\ \A i \in 1 .. Min(Len(v), StrSize - 1) : a[i] = v[i]

\* C33 (amended): the stored field is NUL-terminated within its capacity, has
\* the capacity of the field, and holds the first min(n, capacity - 1)
\* characters of the given string, n being the number of characters before
\* the string's first NUL (its length when it has none).
C33_StoredPrefixUpToNul ==
    pc = "modified" =>
        \A f \in StringFields :
            f \in DOMAIN args.updates /\ args.updates[f].t = "str" =>
                LET v == args.updates[f].v
                    a == args.out_file[f]
                    n == Min(Len(c_str(v)), StrSize - 1)
                IN  /\ DOMAIN a = 1 .. StrSize
                    /\ a[StrSize] = NUL
                    /\ std_string(a) = SubSeq(v, 1, n)
                    /\ \A i \in (n + 1) .. StrSize : a[i] = NUL

\* A string longer than the field was stored, cut to the field's capacity.
C33_Witness ==
    /\ pc = "modified" /\ args.updates = MixedUpdates
    /\ Len(args.updates["camera_model"].v) > StrSize
    /\ std_string(args.out_file["camera_model"])
           = SubSeq(args.updates["camera_model"].v, 1, StrSize - 1)

\* C34: extract_exif_metadata never divides by a zero denominator: each
\* exact-fraction field has its decimal key and its "_rational" key both in
\* the result when its denominator is non-zero and both absent when it is
\* zero, and "gps_info" is always in the result with a boolean "valid" entry.
C34_RationalKeysFollowDenominator ==
    (pc \in {"extracted", "reextracted"} /\ result.status = "ok") =>
        LET d == result.value.dict
            e == params.exif
        IN  /\ \A f \in RationalFields \cup OtherRationalFields :
                  IF e[f].denominator # 0
                  THEN /\ f \in DOMAIN d
                       /\ RationalKey(f) \in DOMAIN d
                       /\ d[f] = PyFloat(e[f].numerator, e[f].denominator)
                       /\ d[RationalKey(f)] =
                              PyTuple(<<e[f].numerator, e[f].denominator>>)
                  ELSE /\ f \notin DOMAIN d
                       /\ RationalKey(f) \notin DOMAIN d
            /\ "gps_info" \in DOMAIN d
            /\ d["gps_info"].t = "dict"
            /\ d["gps_info"].v.valid \in BOOLEAN

====
